---- MODULE Spec2Model ----
(***************************************************************************)
(* A model of the reclaim-agent runner: the milestone queue kept in the    *)
(* YAML store, one agent process at a time running Runner.run (fix flow    *)
(* and milestone flow), the whole-file normalization of                    *)
(* Runner._parse_file_content_format and the validation of                 *)
(* Runner.apply_patch.                                                     *)
(***************************************************************************)
EXTENDS Integers, Sequences, FiniteSets, TLC

VARIABLES
    store,          \* milestones as persisted in reclaim.yaml
    mem,            \* config.milestones of the running process
    pc,             \* position of the running process, "idle" when none runs
    run,            \* locals of the running process
    today,          \* calendar date, as a day number
    prs,            \* remote: head branches that have a pull request
    result,         \* how the run ended, until the process is gone
    resets,         \* operator edits of the store made so far
    log,            \* history: what the current run did, in order
    tracing,        \* whether the history is recorded
    tree,           \* working copy: content of each file, "absent" if none
    index,          \* git index: staged content of each file
    np,             \* locals of a call of _parse_file_content_format
    ap,             \* locals of a call of apply_patch
    yaml,           \* a milestone list on its way through reclaim.yaml
    oa,             \* locals of a call of call_openai and its traffic
    cx              \* locals of the file-content gathering of one prompt

\* the working copy and the two calls that are modelled on it step by step
workcopy == <<tree, index, np, ap>>

\* the queue and the agent process
runvars == <<store, mem, pc, run, today, prs, result, resets, log, tracing>>

\* the conversions and the model call that are modelled on their own
codecs == <<yaml, oa, cx>>

vars == <<runvars, workcopy, codecs>>

----------------------------------------------------------------------------
(* Bounds of the model *)

MaxDay == 2              \* days the model runs through
MaxResets == 1           \* operator edits of the store (back to todo)
MaxOutput == 501         \* characters a failing acceptance command prints

\* self.config.get("max_attempts", 3)
max_attempts == 3

NoAttempts == 0 - 1      \* a milestone record without an "attempts" key
NoStamp == "none"        \* a milestone record without that timestamp key
Stamp == "isoformat"     \* datetime.now().isoformat()

----------------------------------------------------------------------------
(* Milestone ids are strings; they are kept as sequences of characters so  *)
(* that the slug conversion of the branch name is computed, not assumed.   *)

IdA == <<"m", "_", "1">>
IdB == <<"m", "-", "1">>
IdC == <<"m", "2">>
IdLists == {<<IdA, IdB>>, <<IdA, IdC>>}

Paths == {"p1", "p2"}

\* milestone_id.replace("_", "-")
branch_slug(id) == [k \in DOMAIN id |-> IF id[k] = "_" THEN "-" ELSE id[k]]

\* f"agent/{datetime.now().strftime('%Y%m%d')}-{branch_slug}"
milestone_branch_name(date, id) == <<"agent/", date, "-">> \o branch_slug(id)

\* f"agent/{datetime.now().strftime('%Y%m%d')}-fix-truth-checks"
fix_branch_name(date) == <<"agent/", date, "-", "fix-truth-checks">>

----------------------------------------------------------------------------
(* milestones.py *)

Min(S) == CHOOSE x \in S : \A y \in S : x <= y

first_unfinished_milestone(ms) ==
    LET open == {i \in DOMAIN ms : ms[i].status \in {"todo", "in_progress"}}
    IN  IF open = {} THEN 0 ELSE Min(open)

first_milestone(ms) == IF ms = <<>> THEN 0 ELSE 1

last_todo_milestone(ms) ==
    LET todo == {i \in DOMAIN ms : ms[i].status = "todo"}
    IN  IF todo = {} THEN 0 ELSE CHOOSE i \in todo : \A j \in todo : j <= i

\* get_next_todo_milestone: index of the first todo milestone, 0 for None
get_next_todo_milestone(ms) ==
    LET todo == {i \in DOMAIN ms : ms[i].status = "todo"}
    IN  IF todo = {} THEN 0 ELSE Min(todo)

\* update_milestone_status: the first milestone with that id; an empty
\* reason leaves the stored reason alone
\* a writer that leaves every record as it is
leave_milestone_status(ms, id, status, reason) == ms

update_milestone_status(ms, id, status, reason) ==
    LET hits == {i \in DOMAIN ms : ms[i].id = id}
    IN  IF hits = {} THEN ms
        ELSE LET i  == Min(hits)
                 m1 == [ms[i] EXCEPT !.status = status]
                 m2 == IF reason # "" THEN [m1 EXCEPT !.reason = reason] ELSE m1
                 m3 == IF status = "in_progress"
                         THEN [m2 EXCEPT !.started_at = Stamp]
                         ELSE IF status \in {"done", "blocked"}
                                THEN [m2 EXCEPT !.completed_at = Stamp]
                                ELSE m2
             IN  [ms EXCEPT ![i] = m3]

attempts_raw(m) == m.attempts

\* int(milestone.get("attempts", 0))
attempts_of(m) == IF m.attempts = NoAttempts THEN 0 ELSE m.attempts

----------------------------------------------------------------------------
(* The store and the process *)

\* acceptance commands and target_files of the two configured milestones
Acceptance == <<2, 0>>
TargetFiles == <<TRUE, FALSE>>

NewMilestone(id, i, attempts) ==
    [id |-> id, status |-> "todo", attempts |-> attempts, reason |-> "",
     started_at |-> NoStamp, completed_at |-> NoStamp,
     acceptance |-> Acceptance[i], target_files |-> TargetFiles[i]]

----------------------------------------------------------------------------
(* The working copy *)

MaxBlocks == 2      \* file blocks in one model output

\* A path is the sequence of its parts.  The operating system and git
\* name the same file by "f" and by "./f".
BlockPaths == {<<"f">>, <<"/", "f">>, <<".", "/", "f">>, <<"n">>}
Files == {<<"f">>, <<"n">>}
BackupSuffix == <<".agent_backup">>
AllFiles == Files \cup {f \o BackupSuffix : f \in Files}

resolve(p) ==
    IF Len(p) >= 2 /\ p[1] = "." /\ p[2] = "/" THEN SubSeq(p, 3, Len(p)) ELSE p

\* content of a block: the text the file has already, another text, or a
\* text that the utf-8 codec refuses (a lone surrogate)
BlockContents == {"old", "new", "bad"}

Matches == BlockPaths \X BlockContents

NoCall ==
    [pc |-> "idle", files |-> <<>>, i |-> 0, written |-> <<>>,
     backups |-> <<>>, k |-> 0, ret |-> "none", fault |-> FALSE,
     pre |-> <<>>, head |-> <<>>, cached |-> <<>>, unified_diff |-> {}]

NoPatchCall ==
    [pc |-> "idle", input |-> <<>>, ret |-> "none", reason |-> "none",
     invoked |-> {}, pre |-> <<>>, tmp |-> "none", check |-> "none"]

CleanTree == [f \in AllFiles |-> IF f = <<"f">> THEN "old" ELSE "absent"]
CleanIndex == [f \in Files |-> CleanTree[f]]

NoYaml == [pc |-> "idle", ms |-> <<>>, doc |-> <<>>, loaded |-> <<>>]

NoRequest ==
    [pc |-> "idle", retries |-> 0, cap_tokens |-> 0, backoff_s |-> 0,
     attempt |-> 0, max_output_tokens |-> 0, temperature |-> FALSE,
     verbosity |-> FALSE, io |-> <<>>]

NoContext ==
    [pc |-> "idle", skip_redundant_gathering |-> FALSE, files |-> 0,
     idx |-> 0, matched |-> 0, total_chars |-> 0]

WorkcopyIdle ==
    /\ tree = CleanTree
    /\ index = CleanIndex
    /\ np = NoCall
    /\ ap = NoPatchCall
    /\ yaml = NoYaml
    /\ oa = NoRequest
    /\ cx = NoContext

NoRun ==
    [mode |-> "none", flow |-> "none", cur |-> 0,
     branch |-> <<>>, acc |-> 0, parsed |-> FALSE, kind |-> "none",
     stuck |-> {}]

NoResult == [kind |-> "init", url |-> <<>>]

InitRun ==
    /\ \E ids \in IdLists, att \in {NoAttempts, max_attempts} :
          store = [i \in 1..2 |->
                     NewMilestone(ids[i], i, IF i = 1 THEN att ELSE NoAttempts)]
    /\ mem = <<>>
    /\ pc = "idle"
    /\ run = NoRun
    /\ today = 1
    /\ prs = {}
    /\ log = <<>>
    /\ result = NoResult
    /\ resets = 0
    /\ WorkcopyIdle

Event(name, outcome) == <<name, outcome>>
Verdict(failing) == IF failing THEN "failing" ELSE "passing"

not_saved(ms) == store

\* config.save(): reclaim.yaml gets the in-memory milestone list
save(ms) == ms

\* the flow returns (None or a PR url) and main() exits 0
Return(url) ==
    /\ pc' = "ended"
    /\ result' = [kind |-> IF url = <<>> THEN "none" ELSE "url", url |-> url]

\* an exception leaves run_milestone_mode / run_fix_mode / run: nothing
\* catches it before main(), which prints it and exits 1
Raise ==
    /\ pc' = "ended"
    /\ result' = [kind |-> "raised", url |-> <<>>]

fail_and_regenerate ==
    /\ pc' = IF run.flow = "milestone" THEN "ms_model" ELSE "fix_model"
    /\ UNCHANGED result

\* _fail(msg) followed by "return None": AGENT_STRICT, read by _fail, makes
\* it raise RuntimeError instead
fail_and_return ==
    /\ pc' = "ended"
    /\ \E strict \in BOOLEAN :
          result' = [kind |-> IF strict THEN "fail_raised" ELSE "fail_returned",
                     url |-> <<>>]

\* update_milestone_status(...) ; self.config.save()
SetStatus(status, reason) ==
    /\ mem' = update_milestone_status(mem, mem[run.cur].id, status, reason)
    /\ store' = save(mem')

\* the history grows by the events es when it is recorded
Log(es) == log' = IF tracing THEN log \o es ELSE log
Logged(e) == Log(<<e>>)

----------------------------------------------------------------------------
(* run.py main() and Runner.run *)

\* history: the milestones that, when the process starts, are in_progress
\* or blocked in the store although a PR exists for their branch of today
StuckWithPr ==
    {i \in DOMAIN store :
        /\ store[i].status \in {"in_progress", "blocked"}
        /\ milestone_branch_name(today, store[i].id) \in prs}

\* a process starts: Config() loads reclaim.yaml, AGENT_MODE is read from
\* the environment
StartRun ==
    /\ pc = "idle"
    /\ \E mode \in {"fix", "milestone", "auto"} :
          run' = [NoRun EXCEPT !.mode = mode, !.stuck = StuckWithPr]
    /\ mem' = store
    /\ pc' = "sync"
    /\ log' = <<>>
    /\ result' = [kind |-> "running", url |-> <<>>]
    /\ UNCHANGED <<store, today, prs, resets, tracing,
                 workcopy, codecs>>

probe_ignored(mode, failing) ==
    IF mode \in {"milestone", "auto"} THEN "ms_select" ELSE "no_work"

\* where run() goes after the truth checks it runs itself
after_probe(mode, failing) ==
    IF mode \in {"fix", "auto"} /\ failing THEN "fix_probe"
    ELSE IF mode \in {"milestone", "auto"} THEN "ms_select"
    ELSE "no_work"

\* git checkout <default>, git pull (return codes are not looked at), then
\* run_truth_checks() for the modes fix and auto
Sync ==
    /\ pc = "sync"
    /\ \E out \in {"ok", "nonzero", "raise"} :
          /\ Logged(Event("sync", out))
          /\ IF out = "raise"
                THEN Raise
                ELSE /\ pc' = "probe"
                     /\ UNCHANGED result
    /\ UNCHANGED <<store, mem, run, today, prs, resets, tracing,
                 workcopy, codecs>>

Probe ==
    /\ pc = "probe"
    /\ \E failing \in BOOLEAN :
          LET checked == run.mode \in {"fix", "auto"}
              next == after_probe(run.mode, checked /\ failing)
          IN  /\ (~checked => ~failing)
              /\ Log(IF checked THEN <<Event("probe", Verdict(failing))>> ELSE <<>>)
              /\ IF next = "no_work"
                    THEN Return(<<>>)
                    ELSE /\ pc' = next
                         /\ UNCHANGED result
    /\ UNCHANGED <<store, mem, run, today, prs, resets, tracing,
                 workcopy, codecs>>

----------------------------------------------------------------------------
(* Runner.run_milestone_mode *)

exceeds_ceiling_late(attempts) == attempts > max_attempts + 1

\* if attempts > self.config.max_attempts
exceeds_ceiling(attempts) == attempts > max_attempts

\* selection, attempt counter, attempt ceiling, todo -> in_progress
Pickup ==
    /\ pc = "ms_select"
    /\ LET i == get_next_todo_milestone(mem)
       IN  IF i = 0
             THEN /\ Return(<<>>)
                  /\ UNCHANGED <<store, mem, run, log>>
             ELSE LET attempts == attempts_of(mem[i]) + 1
                      counted == [mem EXCEPT ![i].attempts = attempts]
                  IN  /\ run' = [run EXCEPT !.flow = "milestone", !.cur = i]
                      /\ IF exceeds_ceiling(attempts)
                            THEN /\ mem' = update_milestone_status(
                                              counted, mem[i].id, "blocked",
                                              "Exceeded max_attempts")
                                 /\ store' = save(mem')
                                 /\ Logged(Event("save", "blocked"))
                                 /\ Return(<<>>)
                            ELSE /\ mem' = update_milestone_status(
                                              counted, mem[i].id, "in_progress",
                                              "")
                                 /\ store' = save(mem')
                                 /\ Logged(Event("save", "in_progress"))
                                 /\ pc' = "ms_context"
                                 /\ UNCHANGED result
    /\ UNCHANGED <<today, prs, resets, tracing,
                 workcopy, codecs>>

\* knowledge base, git ls-files, file reads: every exception is caught
GatherContext ==
    /\ pc = "ms_context"
    /\ Logged(Event("context", "done"))
    /\ pc' = "ms_model"
    /\ UNCHANGED <<store, mem, run, today, prs, result, resets, tracing,
                 workcopy, codecs>>

no_patch_never(out) == FALSE

\* if patch.strip() == "NO_PATCH"
is_no_patch(out) == out = "NO_PATCH"

\* call_openai and the three ways it yields no patch
MilestoneModel ==
    /\ pc = "ms_model"
    /\ \E out \in {"raise", "empty", "NO_PATCH", "text"} :
          /\ Logged(Event("call_openai", out))
          /\ CASE out = "raise" ->
                     /\ SetStatus("blocked", "OpenAI exception")
                     /\ fail_and_return
                     /\ UNCHANGED run
                [] out = "empty" ->
                     /\ SetStatus("blocked", "Failed to generate patch: empty response")
                     /\ fail_and_return
                     /\ UNCHANGED run
                [] out \notin {"raise", "empty"} /\ is_no_patch(out) ->
                     /\ SetStatus("blocked", "Model unable to safely generate a patch")
                     /\ Return(<<>>)
                     /\ UNCHANGED run
                [] out \notin {"raise", "empty"} /\ ~is_no_patch(out) ->
                     /\ run' = [run EXCEPT !.branch =
                                   milestone_branch_name(today, mem[run.cur].id)]
                     /\ pc' = "ms_lookup"
                     /\ UNCHANGED <<store, mem, result>>
    /\ UNCHANGED <<today, prs, resets, tracing,
                 workcopy, codecs>>

existing_pr_ignored(out) == FALSE

\* "if existing_pr:" on what get_pr_by_branch returned
existing_pr_found(out) == out = "found"

\* github.get_pr_by_branch: the idempotency check
MilestoneLookup ==
    /\ pc = "ms_lookup"
    /\ \E out \in {"raise", "none"} \cup (IF run.branch \in prs THEN {"found"} ELSE {}) :
          /\ Logged(Event("get_pr_by_branch", out))
          /\ CASE out = "raise" ->
                     /\ Raise
                     /\ UNCHANGED <<store, mem>>
                [] out # "raise" /\ existing_pr_found(out) ->
                     /\ SetStatus("done", "")
                     /\ Return(run.branch)
                [] out # "raise" /\ ~existing_pr_found(out) ->
                     /\ pc' = "branch"
                     /\ UNCHANGED <<store, mem, result>>
    /\ UNCHANGED <<run, today, prs, resets, tracing,
                 workcopy, codecs>>

\* _ensure_branch_checked_out, for both flows: git rev-parse, then either
\* git checkout (branch exists locally) or github.create_branch followed by
\* git checkout -b; a failed checkout blocks the milestone
EnsureBranch ==
    /\ pc = "branch"
    /\ \E exists \in BOOLEAN,
          out \in {"raise_rev_parse", "ok", "nonzero", "raise_checkout",
                   "raise_create_branch"} :
             /\ (out = "raise_create_branch" => ~exists)
             /\ (out = "raise_rev_parse" => ~exists)
             /\ Log(
                   (IF ~exists /\ out # "raise_rev_parse"
                         THEN <<Event("create_branch",
                                      IF out = "raise_create_branch" THEN "raise" ELSE "ok")>>
                         ELSE <<>>)
                   \o (IF out \in {"ok", "nonzero", "raise_checkout"}
                         THEN <<Event("checkout", out)>>
                         ELSE <<>>))
             /\ CASE out \in {"raise_rev_parse", "raise_create_branch", "raise_checkout"} ->
                        /\ Raise
                        /\ UNCHANGED <<store, mem>>
                   [] out = "nonzero" ->
                        /\ IF run.flow = "milestone"
                              THEN SetStatus("blocked", "Failed to prepare branch")
                              ELSE UNCHANGED <<store, mem>>
                        /\ fail_and_return
                   [] out = "ok" ->
                        /\ pc' = IF run.flow = "milestone" THEN "ms_parse" ELSE "fix_apply"
                        /\ UNCHANGED <<store, mem, result>>
    /\ UNCHANGED <<run, today, prs, resets, tracing,
                 workcopy, codecs>>

\* What the model answered, as far as the flow looks at it:
\*   blocks  well-formed ===FILE_START/END=== blocks
\*   udiff   a unified diff with "--- a/" / "+++ b/" headers and no block
\*   bare    "--- x" / "+++ x" headers without a/ b/ prefixes, after other text
\*   other   neither blocks nor diff headers
PatchKinds == {"blocks", "udiff", "bare", "other"}

\* matches = patch_file_paths.intersection(allowed_files), for the history
in_scope(touched, allowed) ==
    IF touched \cap allowed = {} THEN "disjoint" ELSE "overlap"

\* _parse_file_content_format as the flow sees it (a diff, the failure
\* "Generated diff is empty", or another failure), the collection of the
\* touched paths, the target_files check and the refusal of unified diffs;
\* the history notes a checked patch that touches a path git ls-files did
\* not list
ParseAndScope ==
    /\ pc = "ms_parse"
    /\ \E kind \in PatchKinds, touched \in SUBSET Paths, allowed \in SUBSET Paths,
          norm \in {"diff", "empty", "error"}, ls \in {"ok", "raise"} :
          LET m == mem[run.cur]
              checked == m.target_files /\ touched # {}
              normalized == kind = "blocks" /\ norm = "diff"
          IN  /\ (kind = "other") = (touched = {})
              /\ kind # "blocks" => norm = "error"
              /\ ~checked => (allowed = {} /\ ls = "ok")
              /\ ls = "raise" => allowed = {}
              /\ Log(
                    <<Event("format", kind)>>
                    \o (IF kind = "blocks"
                          THEN <<Event("normalize", norm)>>
                          ELSE <<>>)
                    \o (IF checked THEN <<Event("ls_files", ls)>> ELSE <<>>)
                    \o (IF checked /\ ls = "ok" /\ touched \ allowed # {}
                          THEN <<Event("patch_file_paths", "not all allowed")>>
                          ELSE <<>>)
                    \o (IF checked /\ ls = "ok"
                          THEN <<Event("scope", in_scope(touched, allowed))>>
                          ELSE <<>>))
              /\ IF ls = "raise"
                    THEN /\ Raise
                         /\ UNCHANGED <<store, mem, run>>
                    ELSE IF checked /\ allowed # {} /\ touched \cap allowed = {}
                    THEN /\ SetStatus("blocked", "Patch touches files outside target_files")
                         /\ fail_and_return
                         /\ UNCHANGED run
                    ELSE IF ~normalized /\ kind = "udiff"
                    THEN /\ SetStatus("blocked", "Model output unified diff format")
                         /\ fail_and_return
                         /\ UNCHANGED run
                    ELSE /\ run' = [run EXCEPT !.parsed = normalized, !.kind = kind]
                         /\ pc' = "ms_apply"
                         /\ UNCHANGED <<store, mem, result>>
    /\ UNCHANGED <<today, prs, resets, tracing,
                 workcopy, codecs>>

\* apply_patch as the flows see it: text without a "--- " / "+++ " line is
\* refused ("No diff found in patch"), a diff is refused, applied, or a git
\* subprocess times out
ApplyPatch ==
    /\ pc \in {"ms_apply", "fix_apply"}
    /\ \E kind \in PatchKinds, out \in {"ok", "rejected", "raise"} :
          LET k == IF pc = "ms_apply" THEN run.kind ELSE kind
              is_diff == IF pc = "ms_apply"
                           THEN run.parsed \/ k = "bare"
                           ELSE k \in {"udiff", "bare"}
          IN  /\ (pc = "ms_apply" => kind = run.kind)
              /\ (~is_diff => out = "rejected")
              /\ Log((IF pc = "fix_apply" THEN <<Event("format", k)>> ELSE <<>>)
                      \o <<Event("apply_patch", out)>>)
              /\ CASE out = "raise" ->
                         /\ Raise
                         /\ UNCHANGED <<store, mem, run>>
                    [] out = "rejected" ->
                         /\ IF run.flow = "milestone"
                               THEN SetStatus("blocked", "Patch apply failed")
                               ELSE UNCHANGED <<store, mem>>
                         /\ fail_and_return
                         /\ UNCHANGED run
                    [] out = "ok" ->
                         /\ pc' = IF pc = "ms_apply" THEN "ms_accept" ELSE "fix_reprobe"
                         /\ run' = [run EXCEPT !.kind = k]
                         /\ UNCHANGED <<store, mem, result>>
    /\ UNCHANGED <<today, prs, resets, tracing,
                 workcopy, codecs>>

\* (result.stdout or '')[:500]
OutputLimit == 500

untruncated(n) == n

\* the length of text[:500] for a text of n characters
truncated(n) == IF n > OutputLimit THEN OutputLimit ELSE n

\* f"Acceptance failed: {cmd}\nSTDOUT:\n{...[:500]}\nSTDERR:\n{...[:500]}":
\* the command is its place in the list, an output is its length
acceptance_reason(cmd, stdout, stderr) ==
    "Acceptance failed: " \o ToString(cmd)
        \o " STDOUT: " \o ToString(truncated(stdout))
        \o " STDERR: " \o ToString(truncated(stderr))

\* one acceptance command of milestone.get("acceptance", []), in list order;
\* a failing command has filled its stdout and left its stderr empty
Acceptance1 ==
    /\ pc = "ms_accept"
    /\ run.acc < mem[run.cur].acceptance
    /\ \E out \in {"ok", "nonzero", "raise"} :
       LET stdout == MaxOutput
           stderr == 0
       IN /\ Logged(Event("acceptance", out))
          /\ CASE out = "raise" ->
                     /\ Raise
                     /\ UNCHANGED <<store, mem, run>>
                [] out = "nonzero" ->
                     /\ SetStatus("blocked",
                                  acceptance_reason(run.acc + 1, stdout, stderr))
                     /\ fail_and_return
                     /\ UNCHANGED run
                [] out = "ok" ->
                     /\ run' = [run EXCEPT !.acc = run.acc + 1]
                     /\ UNCHANGED <<store, mem, pc, result>>
    /\ UNCHANGED <<today, prs, resets, tracing,
                 workcopy, codecs>>

AcceptanceDone ==
    /\ pc = "ms_accept"
    /\ run.acc >= mem[run.cur].acceptance
    /\ pc' = "git_add"
    /\ UNCHANGED <<store, mem, run, today, prs, log, result, resets, tracing,
                 workcopy, codecs>>

\* git add -A, git commit, git push -u origin <branch>, in both flows: the
\* CompletedProcess is dropped, only a timeout ends the flow
GitStep(at, name, next) ==
    /\ pc = at
    /\ \E out \in {"ok", "nonzero", "raise"} :
          /\ Logged(Event(name, out))
          /\ IF out = "raise"
                THEN Raise
                ELSE /\ pc' = next
                     /\ UNCHANGED result
    /\ UNCHANGED <<store, mem, run, today, prs, resets, tracing,
                 workcopy, codecs>>

GitAdd == GitStep("git_add", "git_add", "git_commit")
GitCommit == GitStep("git_commit", "git_commit", "git_push")
GitPush == GitStep("git_push", "git_push", "create_pr")

\* github.create_pr: the PR object on 201, None on any other status; in the
\* fix flow the url is returned at once, in the milestone flow a missing PR
\* object falls to the final "return None"
CreatePr ==
    /\ pc = "create_pr"
    /\ \E out \in {"pr", "none", "raise"} :
          /\ Logged(Event("create_pr", out))
          /\ prs' = IF out = "pr" THEN prs \cup {run.branch} ELSE prs
          /\ CASE out = "raise" -> Raise
                [] out = "none" -> Return(<<>>)
                [] out = "pr" ->
                     IF run.flow = "milestone"
                       THEN /\ pc' = "ms_done"
                            /\ UNCHANGED result
                       ELSE Return(run.branch)
    /\ UNCHANGED <<store, mem, run, today, resets, tracing,
                 workcopy, codecs>>

\* update_milestone_status(..., "done"); config.save(); return pr["html_url"]
MarkDone ==
    /\ pc = "ms_done"
    /\ SetStatus("done", "")
    /\ Logged(Event("save", "done"))
    /\ Return(run.branch)
    /\ UNCHANGED <<run, today, prs, resets, tracing,
                 workcopy, codecs>>

----------------------------------------------------------------------------
(* Runner.run_fix_mode *)

\* run_fix_mode runs the truth checks again
FixProbe ==
    /\ pc = "fix_probe"
    /\ \E failing \in BOOLEAN :
          /\ Logged(Event("probe", Verdict(failing)))
          /\ IF failing
                THEN /\ pc' = "fix_model"
                     /\ UNCHANGED result
                ELSE Return(<<>>)
    /\ run' = [run EXCEPT !.flow = "fix"]
    /\ UNCHANGED <<store, mem, today, prs, resets, tracing,
                 workcopy, codecs>>

FixModel ==
    /\ pc = "fix_model"
    /\ \E out \in {"raise", "empty", "NO_PATCH", "text"} :
          /\ Logged(Event("call_openai", out))
          /\ IF out = "text"
                THEN /\ run' = [run EXCEPT !.branch = fix_branch_name(today)]
                     /\ pc' = "fix_lookup"
                     /\ UNCHANGED result
                ELSE /\ fail_and_return
                     /\ UNCHANGED run
    /\ UNCHANGED <<store, mem, today, prs, resets, tracing,
                 workcopy, codecs>>

FixLookup ==
    /\ pc = "fix_lookup"
    /\ \E out \in {"raise", "none"} \cup (IF run.branch \in prs THEN {"found"} ELSE {}) :
          /\ Logged(Event("get_pr_by_branch", out))
          /\ CASE out = "raise" -> Raise
                [] out # "raise" /\ existing_pr_found(out) -> Return(run.branch)
                [] out # "raise" /\ ~existing_pr_found(out) ->
                     /\ pc' = "branch"
                     /\ UNCHANGED result
    /\ UNCHANGED <<store, mem, run, today, prs, resets, tracing,
                 workcopy, codecs>>

never_red(failing) == FALSE

\* if still_failing
still_red(failing) == failing

\* the truth checks after the patch: still red fails the run
FixReprobe ==
    /\ pc = "fix_reprobe"
    /\ \E failing \in BOOLEAN :
          /\ Logged(Event("reprobe", Verdict(failing)))
          /\ IF still_red(failing)
                THEN fail_and_return
                ELSE /\ pc' = "git_add"
                     /\ UNCHANGED result
    /\ UNCHANGED <<store, mem, run, today, prs, resets, tracing,
                 workcopy, codecs>>

----------------------------------------------------------------------------
(* The environment of the process *)

\* the process is killed between two steps: only the store and the remote
\* remain
Crash ==
    /\ pc \notin {"idle", "ended"}
    /\ pc' = "idle"
    /\ mem' = <<>>
    /\ run' = NoRun
    /\ log' = <<>>
    /\ result' = NoResult
    /\ UNCHANGED <<store, today, prs, resets, tracing,
                 workcopy, codecs>>

\* the operator edits reclaim.yaml between two runs: a milestone that is
\* stuck is put back to todo
OperatorReset ==
    /\ pc = "idle"
    /\ resets < MaxResets
    /\ \E i \in DOMAIN store :
          /\ store[i].status \in {"blocked", "in_progress"}
          /\ store' = [store EXCEPT ![i].status = "todo"]
    /\ resets' = resets + 1
    /\ UNCHANGED <<mem, pc, run, today, prs, log, result, tracing,
                 workcopy, codecs>>

\* main() has exited: only the store and the remote remain
Exit ==
    /\ pc = "ended"
    /\ pc' = "idle"
    /\ mem' = <<>>
    /\ run' = NoRun
    /\ log' = <<>>
    /\ result' = NoResult
    /\ UNCHANGED <<store, today, prs, resets, tracing,
                 workcopy, codecs>>

\* midnight passes between two runs. Branch names carry the date and the
\* date never goes back, so no later lookup can name a PR of an earlier
\* day: the model keeps the PRs of the current day only
NextDay ==
    /\ pc = "idle"
    /\ today < MaxDay
    /\ today' = today + 1
    /\ prs' = {}
    /\ UNCHANGED <<store, mem, pc, run, log, result, resets, tracing,
                 workcopy, codecs>>

\* one step of the running process
Step ==
    \/ Sync \/ Probe
    \/ Pickup \/ GatherContext \/ MilestoneModel \/ MilestoneLookup
    \/ EnsureBranch \/ ParseAndScope \/ ApplyPatch
    \/ Acceptance1 \/ AcceptanceDone
    \/ GitAdd \/ GitCommit \/ GitPush \/ CreatePr \/ MarkDone
    \/ FixProbe \/ FixModel \/ FixLookup \/ FixReprobe

(* The queue over days of runs: the history of a run is not recorded. *)
Init == InitRun /\ tracing = FALSE

Next ==
    \/ StartRun \/ Step \/ Crash \/ Exit \/ OperatorReset \/ NextDay

Spec == Init /\ [][Next]_vars

(* The runs of one day, undisturbed, each with its history recorded. *)
InitTraced == InitRun /\ tracing = TRUE

NextTraced ==
    \/ StartRun \/ Step \/ Exit

SpecRun == InitTraced /\ [][NextTraced]_vars

----------------------------------------------------------------------------
(* Whole-file normalization: Runner._parse_file_content_format *)

strip_leading_slash(file_path) ==
    IF file_path # <<>> /\ Head(file_path) = "/" THEN Tail(file_path)
    ELSE file_path

\* files_to_write[file_path] = file_content: a dict keeps the place of the
\* first assignment of a key and the value of the last
dict_set(d, key, value) ==
    IF \E j \in DOMAIN d : d[j][1] = key
    THEN [j \in DOMAIN d |-> IF d[j][1] = key THEN <<key, value>> ELSE d[j]]
    ELSE Append(d, <<key, value>>)

RECURSIVE files_to_write(_)
files_to_write(matches) ==
    IF matches = <<>> THEN <<>>
    ELSE LET last == matches[Len(matches)]
         IN dict_set(files_to_write(SubSeq(matches, 1, Len(matches) - 1)),
                     strip_leading_slash(last[1]), last[2])

InBackups(file_path) == \E j \in DOMAIN np.backups : np.backups[j] = file_path

ToExcept(fault) ==
    [np EXCEPT !.pc = "except", !.k = 1, !.fault = @ \/ fault]

Truncated(file) == [tree EXCEPT ![file] = "empty"]

\* the call: the regular expression's matches become files_to_write
NormCall ==
    /\ np.pc = "idle"
    /\ \E n \in 0..MaxBlocks : \E matches \in [1..n -> Matches] :
          LET ftw == files_to_write(matches)
          IN np' = [NoCall EXCEPT
                       !.files = ftw, !.i = 1, !.pre = tree,
                       !.head = [f \in Files |-> IF index[f] = "staged"
                                                  THEN "old" ELSE index[f]],
                       !.cached = index,
                       !.pc = IF ftw = <<>> THEN "returned" ELSE "backup",
                       !.ret = IF ftw = <<>> THEN "fail" ELSE "none"]
    /\ UNCHANGED <<runvars, codecs, tree, index, ap>>

\* shutil.copy2 of an existing file to <path>.agent_backup; when it raises
\* the backup file may have been created already
NormBackup ==
    /\ np.pc = "backup"
    /\ LET file_path == np.files[np.i][1]
           actual_file == resolve(file_path)
           backup_path == resolve(file_path \o BackupSuffix)
       IN IF tree[actual_file] # "absent"
          THEN \/ /\ tree' = [tree EXCEPT ![backup_path] = tree[actual_file]]
                  /\ np' = [np EXCEPT !.backups = Append(@, file_path),
                                      !.pc = "write"]
               \/ /\ tree' \in {tree, Truncated(backup_path)}
                  /\ np' = ToExcept(TRUE)
          ELSE /\ tree' = tree
               /\ np' = [np EXCEPT !.pc = "write"]
    /\ UNCHANGED <<runvars, codecs, index, ap>>

\* mkdir of the parent and write_text: the file is opened, which creates
\* or truncates it, before the text is encoded and written
NormWrite ==
    /\ np.pc = "write"
    /\ LET file_path == np.files[np.i][1]
           file_content == np.files[np.i][2]
           actual_file == resolve(file_path)
       IN \/ /\ file_content # "bad"
             /\ tree' = [tree EXCEPT ![actual_file] = file_content]
             /\ np' = [np EXCEPT
                          !.written = Append(@, file_path),
                          !.i = @ + 1, !.k = 1,
                          !.pc = IF np.i = Len(np.files) THEN "add"
                                 ELSE "backup"]
          \/ /\ file_content = "bad"
             /\ tree' = Truncated(actual_file)
             /\ np' = ToExcept(FALSE)
          \/ /\ tree' \in {tree, Truncated(actual_file)}
             /\ np' = ToExcept(TRUE)
    /\ UNCHANGED <<runvars, codecs, index, ap>>

Staged(file_path) == [index EXCEPT ![resolve(file_path)] = tree[resolve(file_path)]]

\* git add <path> for each written path; the return code is not read, a
\* timeout raises
NormAdd ==
    /\ np.pc = "add"
    /\ LET file_path == np.written[np.k]
           next == [np EXCEPT !.k = @ + 1,
                              !.pc = IF np.k = Len(np.written) THEN "diff"
                                     ELSE "add"]
       IN \/ /\ index' = Staged(file_path)
             /\ np' = next
          \/ /\ index' = index
             /\ np' = [next EXCEPT !.fault = TRUE]
          \/ /\ index' \in {index, Staged(file_path)}
             /\ np' = ToExcept(TRUE)
    /\ UNCHANGED <<runvars, codecs, tree, ap>>

\* git diff --cached, with no path named: the output holds every path
\* whose staged content differs from HEAD; a timeout raises, a non-zero
\* return code and an empty output raise RuntimeError
NormDiff ==
    /\ np.pc = "diff"
    /\ \/ /\ index # np.head
          /\ np' = [np EXCEPT !.pc = "reset",
                              !.unified_diff =
                                  {f \in Files : index[f] # np.head[f]}]
       \/ /\ index = np.head
          /\ np' = ToExcept(FALSE)
       \/ np' = ToExcept(TRUE)
    /\ UNCHANGED <<runvars, codecs, tree, index, ap>>

Unstaged ==
    [f \in Files |->
        IF \E j \in DOMAIN np.written : resolve(np.written[j]) = f
        THEN np.head[f] ELSE index[f]]

\* git reset HEAD -- <written paths>; the return code is not read
NormReset ==
    /\ np.pc = "reset"
    /\ \/ /\ index' = Unstaged
          /\ np' = [np EXCEPT !.pc = "restore", !.k = 1]
       \/ /\ index' = index
          /\ np' = [np EXCEPT !.pc = "restore", !.k = 1, !.fault = TRUE]
       \/ /\ index' \in {index, Unstaged}
          /\ np' = ToExcept(TRUE)
    /\ UNCHANGED <<runvars, codecs, tree, ap>>

Moved(file_path) ==
    [tree EXCEPT ![resolve(file_path)] = tree[resolve(file_path \o BackupSuffix)],
                 ![resolve(file_path \o BackupSuffix)] = "absent"]

\* shutil.move of each backup over its file, inside the try block: a
\* missing backup file raises
NormRestore ==
    /\ np.pc = "restore"
    /\ IF np.k > Len(np.backups)
       THEN /\ tree' = tree
            /\ np' = [np EXCEPT !.pc = "unlink", !.k = 1]
       ELSE LET file_path == np.backups[np.k]
            IN IF tree[resolve(file_path \o BackupSuffix)] = "absent"
               THEN /\ tree' = tree
                    /\ np' = ToExcept(FALSE)
               ELSE \/ /\ tree' = Moved(file_path)
                       /\ np' = [np EXCEPT !.k = @ + 1]
                    \/ /\ tree' = tree
                       /\ np' = ToExcept(TRUE)
    /\ UNCHANGED <<runvars, codecs, index, ap>>

\* unlink of each written path that has no backup, then return True
NormUnlink ==
    /\ np.pc = "unlink"
    /\ IF np.k > Len(np.written)
       THEN /\ tree' = tree
            /\ np' = [np EXCEPT !.pc = "returned", !.ret = "ok"]
       ELSE LET file_path == np.written[np.k]
            IN IF ~InBackups(file_path) /\ tree[resolve(file_path)] # "absent"
               THEN \/ /\ tree' = [tree EXCEPT ![resolve(file_path)] = "absent"]
                       /\ np' = [np EXCEPT !.k = @ + 1]
                    \/ /\ tree' = tree
                       /\ np' = ToExcept(TRUE)
               ELSE /\ tree' = tree
                    /\ np' = [np EXCEPT !.k = @ + 1]
    /\ UNCHANGED <<runvars, codecs, index, ap>>

\* except branch: move each backup that exists over its file, errors
\* swallowed
NormCleanupRestore ==
    /\ np.pc = "except"
    /\ IF np.k > Len(np.backups)
       THEN /\ tree' = tree
            /\ np' = [np EXCEPT !.pc = "except_unlink", !.k = 1]
       ELSE LET file_path == np.backups[np.k]
            IN IF tree[resolve(file_path \o BackupSuffix)] = "absent"
               THEN /\ tree' = tree
                    /\ np' = [np EXCEPT !.k = @ + 1]
               ELSE \/ /\ tree' = Moved(file_path)
                       /\ np' = [np EXCEPT !.k = @ + 1]
                    \/ /\ tree' = tree
                       /\ np' = [np EXCEPT !.k = @ + 1, !.fault = TRUE]
    /\ UNCHANGED <<runvars, codecs, index, ap>>

\* except branch: unlink each written path that has no backup, errors
\* swallowed, then return False; the index is not touched
NormCleanupUnlink ==
    /\ np.pc = "except_unlink"
    /\ IF np.k > Len(np.written)
       THEN /\ tree' = tree
            /\ np' = [np EXCEPT !.pc = "returned", !.ret = "fail"]
       ELSE LET file_path == np.written[np.k]
            IN IF ~InBackups(file_path) /\ tree[resolve(file_path)] # "absent"
               THEN \/ /\ tree' = [tree EXCEPT ![resolve(file_path)] = "absent"]
                       /\ np' = [np EXCEPT !.k = @ + 1]
                    \/ /\ tree' = tree
                       /\ np' = [np EXCEPT !.k = @ + 1, !.fault = TRUE]
               ELSE /\ tree' = tree
                    /\ np' = [np EXCEPT !.k = @ + 1]
    /\ UNCHANGED <<runvars, codecs, index, ap>>

\* one fixed state of the queue, which normalization does not read
RunIdle ==
    /\ store = [i \in 1..2 |-> NewMilestone(<<IdA, IdB>>[i], i, NoAttempts)]
    /\ mem = <<>>
    /\ pc = "idle"
    /\ run = NoRun
    /\ today = 1
    /\ prs = {}
    /\ log = <<>>
    /\ result = NoResult
    /\ resets = 0
    /\ tracing = FALSE

\* the working copy before the call: each file exists or not, and an
\* existing file is tracked or not; the index holds what HEAD holds, or,
\* for a file of HEAD, a change that was staged before the call
InitNorm ==
    /\ RunIdle
    /\ tree \in {t \in [AllFiles -> {"absent", "old"}] :
                    \A f \in Files : t[f \o BackupSuffix] = "absent"}
    /\ index \in {x \in [Files -> {"absent", "old", "staged"}] :
                    \A f \in Files : x[f] \in {"absent", tree[f], "staged"}}
    /\ np = NoCall
    /\ ap = NoPatchCall
    /\ yaml = NoYaml
    /\ oa = NoRequest
    /\ cx = NoContext

NextNorm ==
    \/ NormCall \/ NormBackup \/ NormWrite \/ NormAdd \/ NormDiff
    \/ NormReset \/ NormRestore \/ NormUnlink
    \/ NormCleanupRestore \/ NormCleanupUnlink

SpecNorm == InitNorm /\ [][NextNorm]_vars

----------------------------------------------------------------------------
(* Validation and application of a diff: Runner.apply_patch *)

MaxLines == 4       \* lines of one patch text

\* A header path is the sequence of its parts; "f" is a file of the
\* working copy, "n" is not, "d" is a directory.
Dirs == {<<"d">>}
HeaderPaths ==
    {<<"a/", "f">>, <<"n">>, <<"a/", "Placeholder", ".ts">>,
     <<"a/", "dummy", "/", "f">>, <<"a/", "example">>, <<"/dev/null">>,
     <<"d">>}

\* A line is its kind and what follows: '--- <path>', '+++ <path>', a line
\* that begins with '@@', or other text.  The forms of an '@@' line:
\* '@@ -10,5 +10,8 @@', '@@ ... @@', '@@ -5,0 +5,0 @@' and, with no blank
\* after the '@@', '@@-10,5 +10,8@@'.
HunkForms == {"real", "placeholder", "zero", "glued"}
PatchLines ==
    ({"--- "} \X HeaderPaths) \cup {<<"+++ ", <<"b/", "f">>>>}
        \cup ({"@@"} \X HunkForms) \cup {<<"text", <<>>>>}

\* index of the first element of a set of line numbers, 0 for none
First(hits) == IF hits = {} THEN 0 ELSE Min(hits)

is_header(line) == line[1] \in {"--- ", "+++ "}
diff_start(lines) == First({j \in DOMAIN lines : is_header(lines[j])})
clean_patch(lines) == SubSeq(lines, diff_start(lines), Len(lines))

\* ^@@\s+.*\s+@@
hunk_header_pattern(line) ==
    line[1] = "@@" /\ line[2] \in {"real", "placeholder", "zero"}
\* ^@@\s+\.\.\..*@@
placeholder_hunk_pattern(line) == line[1] = "@@" /\ line[2] = "placeholder"
no_hunk_pattern(line) == FALSE
\* ^@@\s+-\d+,0\s+\+\d+,0\s+@@
zero_length_hunk_pattern(line) == line[1] = "@@" /\ line[2] = "zero"

is_minus_header(line) == line[1] = "--- "
first_header(patch) == First({j \in DOMAIN patch : is_minus_header(patch[j])})

strip_a(header_path) ==
    IF header_path # <<>> /\ Head(header_path) = "a/" THEN Tail(header_path)
    ELSE header_path

lower_part(part) ==
    IF part = "Placeholder" THEN "placeholder" ELSE part
lower(header_path) == [j \in DOMAIN header_path |-> lower_part(header_path[j])]

is_placeholder_path(lowered) ==
    \/ \E j \in DOMAIN lowered : lowered[j] = "placeholder"
    \/ \E j \in DOMAIN lowered : lowered[j] = "dummy"
    \/ lowered = <<"example">>

exists(path) ==
    \/ path \in Dirs
    \/ path \in DOMAIN tree /\ tree[path] # "absent"
is_file(path) == path \in DOMAIN tree /\ tree[path] # "absent"

header_rejection(header_path) ==
    IF is_placeholder_path(lower(header_path)) THEN "PlaceholderPath"
    ELSE IF header_path = <<"/dev/null">> THEN "ok"
    ELSE IF ~exists(header_path) THEN "TargetFileMissing"
    ELSE IF ~is_file(header_path) THEN "NotRegularFile"
    ELSE "ok"

\* the checks of apply_patch before the temporary patch file is written
rejection(lines) ==
    IF diff_start(lines) = 0 THEN "NoPatchFound"
    ELSE LET patch == clean_patch(lines)
         IN IF \E j \in DOMAIN patch : placeholder_hunk_pattern(patch[j])
            THEN "PlaceholderHunk"
            ELSE IF \E j \in DOMAIN patch : zero_length_hunk_pattern(patch[j])
                 THEN "ZeroLengthHunk"
            ELSE IF ~\E j \in DOMAIN patch : hunk_header_pattern(patch[j])
                 THEN "MissingHunkHeader"
            ELSE IF first_header(patch) = 0 THEN "ok"
            ELSE header_rejection(strip_a(patch[first_header(patch)][2]))

NewPatchCall(lines) ==
    [pc |-> "idle", input |-> lines, ret |-> "none", reason |-> "none",
     invoked |-> {}, pre |-> tree, tmp |-> "none", check |-> "none"]

PatchCall ==
    /\ ap.pc = "idle"
    /\ \E n \in 0..MaxLines : \E lines \in [1..n -> PatchLines] :
          LET why == rejection(lines)
          IN ap' = IF why = "ok"
                   THEN [NewPatchCall(lines) EXCEPT !.pc = "write"]
                   ELSE [NewPatchCall(lines) EXCEPT
                            !.pc = "returned", !.ret = "fail", !.reason = why]
    /\ UNCHANGED <<runvars, codecs, tree, index, np>>

\* NamedTemporaryFile(mode="w", suffix=".patch", delete=False) creates the
\* file, f.write(clean_patch) fills it; the write raises when the text
\* cannot be encoded or the disk refuses it, and that is before the "try"
PatchWrite ==
    /\ ap.pc = "write"
    /\ \E out \in {"written", "raise"} :
          ap' = [ap EXCEPT
                    !.tmp = "present",
                    !.pc = IF out = "written" THEN "check" ELSE "returned",
                    !.ret = IF out = "written" THEN "none" ELSE "raised"]
    /\ UNCHANGED <<runvars, codecs, tree, index, np>>

\* git apply --check <patch file>; a timeout raises out of apply_patch;
\* "finally" unlinks the patch file on every way out of the "try"
PatchCheck ==
    /\ ap.pc = "check"
    /\ \E out \in {"zero", "nonzero", "raise"} :
          ap' = [ap EXCEPT
                    !.invoked = @ \cup {"git apply --check"},
                    !.check = out,
                    !.tmp = IF out = "zero" THEN "present" ELSE "deleted",
                    !.pc = IF out = "zero" THEN "apply" ELSE "returned",
                    !.ret = CASE out = "zero" -> "none"
                              [] out = "nonzero" -> "fail"
                              [] OTHER -> "raised",
                    !.reason = IF out = "nonzero" THEN "DryRunRejected"
                               ELSE "none"]
    /\ UNCHANGED <<runvars, codecs, tree, index, np>>

header_file(line) ==
    IF Head(line[2]) \in {"a/", "b/"} THEN Tail(line[2]) ELSE line[2]

Applied(patch) ==
    [f \in DOMAIN tree |->
        IF \E j \in DOMAIN patch : is_header(patch[j]) /\ header_file(patch[j]) = f
        THEN "new" ELSE tree[f]]

\* git apply <patch file>
PatchApply ==
    /\ ap.pc = "apply"
    /\ \E out \in {"zero", "nonzero", "raise"} :
          /\ ap' = [ap EXCEPT
                       !.invoked = @ \cup {"git apply"},
                       !.tmp = "deleted",
                       !.pc = "returned",
                       !.ret = CASE out = "zero" -> "ok"
                                 [] out = "nonzero" -> "fail"
                                 [] OTHER -> "raised",
                       !.reason = IF out = "nonzero" THEN "ApplyRejected"
                                  ELSE "none"]
          /\ tree' \in CASE out = "zero" -> {Applied(clean_patch(ap.input))}
                         [] out = "nonzero" -> {tree}
                         [] OTHER -> {tree, Applied(clean_patch(ap.input))}
    /\ UNCHANGED <<runvars, codecs, index, np>>

InitPatch ==
    /\ RunIdle
    /\ tree = CleanTree
    /\ index = CleanIndex
    /\ np = NoCall
    /\ ap = NoPatchCall
    /\ yaml = NoYaml
    /\ oa = NoRequest
    /\ cx = NoContext

NextPatch == PatchCall \/ PatchWrite \/ PatchCheck \/ PatchApply

SpecPatch == InitPatch /\ [][NextPatch]_vars

----------------------------------------------------------------------------
(* Config.save and Config._load_yaml: the milestone list is written to     *)
(* reclaim.yaml by yaml.dump(default_flow_style=False, sort_keys=False)    *)
(* and read back by yaml.safe_load.  A scalar is a sequence of characters; *)
(* the characters kept apart are the ones the emitter and the scanner      *)
(* treat specially: space, line break, colon and digit.  A whole ISO       *)
(* timestamp is one character of the model.                                *)

MaxChars == 3

Chars == {"a", ":", " ", "\n", "1"}
IsoStamp == "2025-01-01T00:00:00"

\* the Python values the milestone records hold
PyStr(s) == [t |-> "str", v |-> s]
PyInt(s) == [t |-> "int", v |-> s]

White == {" ", "\n"}

\* implicit resolver of plain scalars, shared by yaml.Dumper and
\* yaml.SafeLoader (YAML 1.1: integers include the sexagesimal form 1:1)
resolve_tag(s) ==
    IF s = <<>> THEN "null"
    ELSE IF /\ s[1] = "1" /\ s[Len(s)] = "1"
            /\ \A k \in DOMAIN s : s[k] \in {"1", ":"}
            /\ \A k \in 1..(Len(s) - 1) : ~(s[k] = ":" /\ s[k + 1] = ":")
         THEN "int"
    ELSE IF s = <<IsoStamp>> THEN "timestamp"
    ELSE "str"

\* Emitter.analyze_scalar
break_space(s) == \E k \in 1..(Len(s) - 1) : s[k] = "\n" /\ s[k + 1] = " "
space_break(s) == \E k \in 1..(Len(s) - 1) : s[k] = " " /\ s[k + 1] = "\n"
block_indicators(s) ==
    \E k \in DOMAIN s : s[k] = ":" /\ (k = Len(s) \/ s[k + 1] \in White)

allow_block_plain(s) ==
    LET leading_space == s # <<>> /\ s[1] = " "
        leading_break == s # <<>> /\ s[1] = "\n"
        trailing_space == s # <<>> /\ s[Len(s)] = " "
        trailing_break == s # <<>> /\ s[Len(s)] = "\n"
        line_breaks == \E k \in DOMAIN s : s[k] = "\n"
    IN  ~ \/ leading_space \/ leading_break
          \/ trailing_space \/ trailing_break
          \/ break_space(s) \/ space_break(s)
          \/ line_breaks \/ block_indicators(s)

any_single_quoted(s) == TRUE

allow_single_quoted(s) == ~(break_space(s) \/ space_break(s))

\* Emitter.choose_scalar_style for a mapping value in block context
choose_scalar_style(value) ==
    IF resolve_tag(value.v) = value.t /\ allow_block_plain(value.v) THEN "plain"
    ELSE IF allow_single_quoted(value.v) THEN "single"
    ELSE "double"

\* Emitter.write_single_quoted: a run of line breaks is written with one
\* more line break in front and the indentation behind it
RECURSIVE write_single_quoted(_, _)
write_single_quoted(s, k) ==
    IF k > Len(s) THEN <<>>
    ELSE (IF s[k] = "\n" /\ (k = 1 \/ s[k - 1] # "\n") THEN <<"\n">> ELSE <<>>)
         \o <<s[k]>>
         \o (IF s[k] = "\n" /\ (k = Len(s) \/ s[k + 1] # "\n") THEN <<" ">> ELSE <<>>)
         \o write_single_quoted(s, k + 1)

\* Emitter.write_double_quoted: a line break is written as an escape
write_double_quoted(s) == [k \in DOMAIN s |-> IF s[k] = "\n" THEN "\\n" ELSE s[k]]

\* the scalar as it stands in the file
represent(value) ==
    LET style == choose_scalar_style(value) IN
    [style |-> style,
     text |-> CASE style = "plain" -> value.v
                [] style = "single" -> write_single_quoted(value.v, 1)
                [] style = "double" -> write_double_quoted(value.v)]

\* the length of the run of spaces and line breaks a text starts with
whitespaces(s) ==
    CHOOSE n \in 0..Len(s) :
        /\ \A k \in 1..n : s[k] \in White
        /\ n = Len(s) \/ s[n + 1] \notin White

RECURSIVE newlines(_)
newlines(n) == IF n <= 0 THEN <<>> ELSE <<"\n">> \o newlines(n - 1)

\* Scanner.scan_flow_scalar_spaces: a run holding line breaks is folded, one
\* break to a space, more to one break less; its spaces are dropped
RECURSIVE scan_flow_scalar_spaces(_)
scan_flow_scalar_spaces(s) ==
    IF s = <<>> THEN <<>>
    ELSE LET n == whitespaces(s)
             breaks == Cardinality({k \in 1..n : s[k] = "\n"})
         IN  IF n = 0 THEN <<s[1]>> \o scan_flow_scalar_spaces(Tail(s))
             ELSE (IF breaks = 0 THEN SubSeq(s, 1, n)
                   ELSE IF breaks = 1 THEN <<" ">>
                   ELSE newlines(breaks - 1))
                  \o scan_flow_scalar_spaces(SubSeq(s, n + 1, Len(s)))

\* Scanner.scan_flow_scalar_non_spaces: escapes of a double-quoted scalar
unescape(s) == [k \in DOMAIN s |-> IF s[k] = "\\n" THEN "\n" ELSE s[k]]

\* Scanner.scan_plain: white space around a plain scalar is not part of it
RECURSIVE strip(_)
strip(s) ==
    IF s # <<>> /\ s[1] \in White THEN strip(Tail(s))
    ELSE IF s # <<>> /\ s[Len(s)] \in White THEN strip(SubSeq(s, 1, Len(s) - 1))
    ELSE s

\* SafeConstructor: a quoted scalar is a string, a plain one is what the
\* implicit resolver says it is
construct(scalar) ==
    CASE scalar.style = "single" -> PyStr(scan_flow_scalar_spaces(scalar.text))
      [] scalar.style = "double" -> PyStr(unescape(scan_flow_scalar_spaces(scalar.text)))
      [] scalar.style = "plain" ->
            LET s == scan_flow_scalar_spaces(strip(scalar.text)) IN
            \* ": " inside a plain scalar ends it: the rest is a ScannerError
            IF block_indicators(scalar.text) THEN [t |-> "error", v |-> <<>>]
            ELSE CASE resolve_tag(s) = "str" -> PyStr(s)
                   [] resolve_tag(s) = "int" -> PyInt(s)
                   [] resolve_tag(s) = "timestamp" -> [t |-> "timestamp", v |-> s]
                   [] resolve_tag(s) = "null" -> [t |-> "null", v |-> <<>>]

\* yaml.dump and yaml.safe_load of the list under the "milestones" key:
\* block sequence of block mappings, keys in insertion order
dump(ms) == [i \in DOMAIN ms |-> [j \in DOMAIN ms[i] |-> <<ms[i][j][1], represent(ms[i][j][2])>>]]
safe_load(doc) == [i \in DOMAIN doc |-> [j \in DOMAIN doc[i] |-> <<doc[i][j][1], construct(doc[i][j][2])>>]]

\* free text of at most MaxChars characters
Texts == UNION {[1..n -> Chars] : n \in 0..MaxChars}

\* a queue with one milestone in every status, as the runner leaves them
Milestones(id, title, reason) ==
    << << <<"id", PyStr(id)>>, <<"title", PyStr(title)>>, <<"status", PyStr(<<"todo">>)>> >>,
       << <<"id", PyStr(id)>>, <<"title", PyStr(title)>>, <<"status", PyStr(<<"in_progress">>)>>,
          <<"attempts", PyInt(<<"1">>)>>, <<"started_at", PyStr(<<IsoStamp>>)>> >>,
       << <<"id", PyStr(id)>>, <<"title", PyStr(title)>>, <<"status", PyStr(<<"done">>)>>,
          <<"attempts", PyInt(<<"1">>)>>, <<"started_at", PyStr(<<IsoStamp>>)>>,
          <<"completed_at", PyStr(<<IsoStamp>>)>> >>,
       << <<"id", PyStr(id)>>, <<"title", PyStr(title)>>, <<"status", PyStr(<<"blocked">>)>>,
          <<"attempts", PyInt(<<"1">>)>>, <<"started_at", PyStr(<<IsoStamp>>)>>,
          <<"reason", PyStr(reason)>>, <<"completed_at", PyStr(<<IsoStamp>>)>> >> >>

\* Config.save
YamlSave ==
    /\ yaml.pc = "dirty"
    /\ yaml' = [yaml EXCEPT !.pc = "saved", !.doc = dump(yaml.ms)]
    /\ UNCHANGED <<runvars, workcopy, oa, cx>>

\* Config.__init__ of the next run
YamlLoad ==
    /\ yaml.pc = "saved"
    /\ yaml' = [yaml EXCEPT !.pc = "loaded", !.loaded = safe_load(yaml.doc)]
    /\ UNCHANGED <<runvars, workcopy, oa, cx>>

InitYaml ==
    /\ RunIdle
    /\ tree = CleanTree
    /\ index = CleanIndex
    /\ np = NoCall
    /\ ap = NoPatchCall
    /\ \E id \in {<<"m", "1">>, <<"1">>} :
       \E title \in {<<"a">>, <<"a", ":", " ", "a">>} :
       \E reason \in Texts :
          yaml = [NoYaml EXCEPT !.pc = "dirty", !.ms = Milestones(id, title, reason)]
    /\ oa = NoRequest
    /\ cx = NoContext

NextYaml ==
    \/ YamlSave
    \/ YamlLoad

SpecYaml == InitYaml /\ [][NextYaml]_vars

\* ---------------------------------------------------------------------
\* call_openai: one call, its requests, its sleeps and its return
\* ---------------------------------------------------------------------

MaxRetries == 3     \* largest OPENAI_RETRIES a call is configured with

\* max(lo, min(hi, n))
clamp(n, lo, hi) ==
    LET least == Min({hi, n})
    IN IF lo > least THEN lo ELSE least

\* what one request of the main loop can come back with: a 200 with text,
\* a 200 without text, a 200 that is incomplete for max_output_tokens and
\* has no text, an error naming insufficient_quota, an error naming a
\* parameter the request carries, a transient status, another status, or
\* an exception of requests.post
Answers ==
    {"text", "empty", "incomplete", "insufficient_quota", "temperature",
     "verbosity", "transient", "other", "raise"}

Sent(kind, answer) ==
    [oa EXCEPT !.io = Append(@, [kind |-> kind, n |-> oa.max_output_tokens,
                                 answer |-> answer])]

\* the environment is read and the request body is built
OpenaiCall ==
    /\ oa.pc = "idle"
    /\ \E start_tokens \in {100, 4000} :
       \E cap_tokens \in {256, 20000} :
       \E retries \in 0..MaxRetries :
       \E backoff_s \in {2, 16} :
       \E temp \in BOOLEAN :
       \E verbosity \in BOOLEAN :
          oa' = [NoRequest EXCEPT
                    !.pc = IF retries = 0 THEN "returned" ELSE "post",
                    !.retries = retries,
                    !.cap_tokens = cap_tokens,
                    !.backoff_s = backoff_s,
                    !.attempt = 1,
                    !.max_output_tokens = clamp(start_tokens, 512, cap_tokens),
                    !.temperature = temp,
                    !.verbosity = verbosity]
    /\ UNCHANGED <<runvars, workcopy, yaml, cx>>

\* continue: the next attempt of the for loop, or the return after it
Continue(o) ==
    IF o.attempt < o.retries
    THEN [o EXCEPT !.pc = "post", !.attempt = @ + 1]
    ELSE [o EXCEPT !.pc = "returned"]

\* if attempt < retries: sleep and continue; what follows otherwise
Backoff(o, otherwise) ==
    IF o.attempt < o.retries THEN [o EXCEPT !.pc = "sleep"]
    ELSE [o EXCEPT !.pc = otherwise]

\* one request of the main loop and the handling of its answer
OpenaiPost ==
    /\ oa.pc = "post"
    /\ \E answer \in Answers : \E resp_id \in BOOLEAN :
       LET o == Sent("main", answer)
           current == oa.max_output_tokens
           larger == IF current * 3 > current + 2000 THEN current * 3
                     ELSE current + 2000
           bumped == clamp(larger, 512, oa.cap_tokens)
       IN /\ answer = "temperature" => oa.temperature
          /\ answer = "verbosity" => oa.verbosity
          /\ answer # "incomplete" => resp_id
          /\ oa' = CASE answer = "incomplete" /\ bumped > current ->
                          Continue([o EXCEPT !.max_output_tokens = bumped])
                     [] answer = "incomplete" /\ bumped <= current ->
                          [o EXCEPT !.pc = IF resp_id THEN "continuation"
                                           ELSE "returned"]
                     [] answer = "temperature" ->
                          Backoff([o EXCEPT !.temperature = FALSE], "returned")
                     [] answer = "verbosity" ->
                          Backoff([o EXCEPT !.verbosity = FALSE], "returned")
                     [] answer \in {"transient", "raise"} ->
                          Backoff(o, "returned")
                     [] OTHER -> [o EXCEPT !.pc = "returned"]
    /\ UNCHANGED <<runvars, workcopy, yaml, cx>>

\* time.sleep(backoff_s); backoff_s = min(backoff_s * 2, 30); continue
OpenaiSleep ==
    /\ oa.pc = "sleep"
    /\ oa' = [oa EXCEPT !.pc = "post",
                        !.attempt = @ + 1,
                        !.backoff_s = Min({oa.backoff_s * 2, 30}),
                        !.io = Append(@, [kind |-> "sleep", n |-> oa.backoff_s,
                                          answer |-> "none"])]
    /\ UNCHANGED <<runvars, workcopy, yaml, cx>>

\* the continuation request, sent inside the try block of the attempt: an
\* exception of requests.post is handled as that of a main request
OpenaiContinuation ==
    /\ oa.pc = "continuation"
    /\ \E answer \in {"text", "empty", "other", "raise"} :
          oa' = IF answer = "raise"
                THEN Backoff(Sent("continuation", answer), "returned")
                ELSE [Sent("continuation", answer) EXCEPT !.pc = "returned"]
    /\ UNCHANGED <<runvars, workcopy, yaml, cx>>

InitCall ==
    /\ RunIdle
    /\ tree = CleanTree
    /\ index = CleanIndex
    /\ np = NoCall
    /\ ap = NoPatchCall
    /\ yaml = NoYaml
    /\ oa = NoRequest
    /\ cx = NoContext

NextCall ==
    \/ OpenaiCall
    \/ OpenaiPost
    \/ OpenaiSleep
    \/ OpenaiContinuation

SpecCall == InitCall /\ [][NextCall]_vars

\* ---------------------------------------------------------------------
\* run_milestone_mode, step 4 of the context: the content of the
\* milestone's target files
\* ---------------------------------------------------------------------

MaxFiles == 11      \* files that match the milestone's target_files

\* the matching files are there, sorted by priority_score; what each of
\* them holds is drawn when it is read
GatherCall ==
    /\ cx.pc = "idle"
    /\ \E kb \in BOOLEAN : \E files \in 0..MaxFiles :
          cx' = [NoContext EXCEPT !.pc = IF files = 0 THEN "done" ELSE "loop",
                                  !.skip_redundant_gathering = kb,
                                  !.files = files]
    /\ UNCHANGED <<runvars, workcopy, yaml, oa>>

\* one turn of the loop over all_matching_files[:max_files_total], under
\* the limits that hold with a knowledge base and without: the
\* path is no file or cannot be read, or read is the number of characters
\* of the file; the headers and the truncation note of a snippet are not
\* counted
GatherFile ==
    /\ cx.pc = "loop"
    /\ LET lim == IF cx.skip_redundant_gathering
                  THEN [max_files_full |-> 3, max_files_total |-> 5,
                        max_chars_per_file_truncated |-> 30000,
                        max_total_chars |-> 100000]
                  ELSE [max_files_full |-> 3, max_files_total |-> 10,
                        max_chars_per_file_truncated |-> 50000,
                        max_total_chars |-> 200000]
           listed == Min({cx.files, lim.max_files_total})
           next == [cx EXCEPT !.idx = @ + 1,
                              !.pc = IF cx.idx + 1 >= listed THEN "done"
                                     ELSE "loop"]
       IN IF cx.total_chars >= lim.max_total_chars
          THEN cx' = [cx EXCEPT !.pc = "done"]
          ELSE \/ cx' = next
               \/ \E read \in {0, 40000, 250000} :
                  LET remaining_budget == lim.max_total_chars - cx.total_chars
                      chars_to_take ==
                          IF cx.idx < lim.max_files_full THEN read
                          ELSE Min({lim.max_chars_per_file_truncated,
                                    remaining_budget, read})
                      matched == cx.matched + 1
                      total_chars == cx.total_chars + chars_to_take
                  IN cx' = [next EXCEPT
                               !.matched = matched,
                               !.total_chars = total_chars,
                               !.pc = IF \/ matched >= lim.max_files_total
                                         \/ total_chars >= lim.max_total_chars
                                      THEN "done" ELSE next.pc]
    /\ UNCHANGED <<runvars, workcopy, yaml, oa>>

InitContext ==
    /\ RunIdle
    /\ tree = CleanTree
    /\ index = CleanIndex
    /\ np = NoCall
    /\ ap = NoPatchCall
    /\ yaml = NoYaml
    /\ oa = NoRequest
    /\ cx = NoContext

NextContext ==
    \/ GatherCall
    \/ GatherFile

SpecContext == InitContext /\ [][NextContext]_vars

----------------------------------------------------------------------------
(* Reading the history of a run *)

Has(e) == \E k \in DOMAIN log : log[k] = e
Did(name) == \E k \in DOMAIN log : log[k][1] = name

\* what changes the local branch set, the remote or the working copy
SideEffects ==
    {"create_branch", "checkout", "normalize", "apply_patch", "git_add",
     "git_commit", "git_push", "create_pr"}

InProgress(ms) == {i \in DOMAIN ms : ms[i].status = "in_progress"}

----------------------------------------------------------------------------
(* The milestone queue *)

\* C1: in every state of the persisted milestone list, after any sequence
\* of agent runs, at most one milestone has status in_progress.
C1_AtMostOneInProgress == Cardinality(InProgress(store)) <= 1

\* C2: when the milestone flow has ended for a milestone that it marked
\* in_progress, whether by a return or by an exception of a later step,
\* that milestone is persisted as done or blocked, never as in_progress.
C2_NeverLeftInProgress ==
    (pc = "ended" /\ run.flow = "milestone" /\ run.cur # 0
       /\ Has(Event("sync", "ok")))
        => store[run.cur].status \in {"done", "blocked"}

\* C3: if create_pr returned no PR object after commit and push, the flow
\* returns with the milestone persisted as blocked, with a reason.
C3_FailedPrCreateBlocks ==
    (pc = "ended" /\ run.flow = "milestone" /\ Has(Event("sync", "ok"))
       /\ Has(Event("create_pr", "none")))
        => /\ store[run.cur].status = "blocked"
           /\ store[run.cur].reason # ""

\* C4: a milestone is done at the end of the run that picked it up only if
\* the PR lookup found a PR for its branch, or the patch was applied, no
\* acceptance command failed, git commit and git push both succeeded and
\* create_pr returned a PR object.
C4_DoneOnlyAfterLanding ==
    (pc = "ended" /\ run.flow = "milestone" /\ run.cur # 0
       /\ Has(Event("sync", "ok")) /\ store[run.cur].status = "done")
        => \/ Has(Event("get_pr_by_branch", "found"))
           \/ /\ Has(Event("apply_patch", "ok"))
              /\ ~Has(Event("acceptance", "nonzero"))
              /\ Has(Event("git_commit", "ok"))
              /\ Has(Event("git_push", "ok"))
              /\ Has(Event("create_pr", "pr"))

\* C5: a todo milestone picked up with attempts already at max_attempts is
\* blocked with a reason, the store holds that, the run ends there, and the
\* run has called neither the model nor made any branch, apply, commit,
\* push or PR-create.
C5_CeilingBlocksWithoutModelCall ==
    \A i \in DOMAIN mem :
        (pc # "idle" /\ run.cur = i /\ mem[i].attempts = max_attempts + 1)
            => /\ pc = "ended"
               /\ result.kind = "none"
               /\ store[i].status = "blocked"
               /\ store[i].reason # ""
               /\ store[i].attempts = max_attempts + 1
               /\ ~Did("call_openai")
               /\ \A name \in SideEffects : ~Did(name)

C5_Witness ==
    /\ pc = "ended"
    /\ run.cur = 1
    /\ store[1].attempts = max_attempts + 1
    /\ store[1].status = "blocked"
    /\ Has(Event("save", "blocked"))

\* the shape agent/<date>-<slug>, the slug being the id with "-" for "_"
IsMilestoneBranch(b, date, id) ==
    /\ Len(b) = 3 + Len(id)
    /\ b[1] = "agent/" /\ b[2] = date /\ b[3] = "-"
    /\ \A k \in DOMAIN id :
          IF id[k] = "_" THEN b[3 + k] = "-" ELSE b[3 + k] = id[k]

\* C6: the branch name is agent/<date>-<id> (agent/<date>-fix-truth-checks
\* in the fix flow), and a run whose PR lookup for it finds a PR ends at
\* once with that PR's url, has made no branch, apply, commit, push or
\* PR-create, and in the milestone flow has persisted the milestone as done.
C6_ExistingPrIsReused ==
    Has(Event("get_pr_by_branch", "found"))
        => /\ pc = "ended"
           /\ result = [kind |-> "url", url |-> run.branch]
           /\ run.branch \in prs
           /\ \A name \in SideEffects : ~Did(name)
           /\ run.flow = "fix" => run.branch = <<"agent/", today, "-", "fix-truth-checks">>
           /\ run.flow = "milestone"
                 => /\ IsMilestoneBranch(run.branch, today, store[run.cur].id)
                    /\ store[run.cur].status = "done"
                    /\ store = mem

C6_Witness ==
    /\ Has(Event("get_pr_by_branch", "found"))
    /\ run.flow = "milestone"
    /\ store[run.cur].id = IdB
    /\ store[run.cur].status = "done"

C6_WitnessFix ==
    /\ Has(Event("get_pr_by_branch", "found"))
    /\ run.flow = "fix"
    /\ result.kind = "url"

\* the milestone flow ended by returning the url of a PR that the lookup
\* found: no patch was looked at
LookupFound ==
    /\ pc = "ended" /\ run.flow = "milestone"
    /\ result.kind = "url" /\ run.kind = "none"

\* C7 as claimed: a run of the same day that returns heals every milestone
\* that was in_progress or blocked with its PR existing when the run began.
C7_SecondRunHeals ==
    (pc = "ended" /\ run.mode = "milestone" /\ result.kind \in {"none", "url"})
        => \A i \in run.stuck : store[i].status = "done"

\* C7 amended: a run leaves every milestone that was in_progress or blocked
\* when it began as it was, whether a PR exists for it or not; the lookup
\* heals a milestone only in a run that picked it up as todo, and then the
\* milestone is persisted as done and the run returns the url of that PR.
C7_HealsOnlyWhenPickedUp ==
    /\ pc # "idle" =>
          \A i \in run.stuck : store[i].status = "in_progress" \/ store[i].status = "blocked"
    /\ LookupFound =>
          /\ run.cur \notin run.stuck
          /\ store[run.cur].status = "done"
          /\ result.url = milestone_branch_name(today, store[run.cur].id)
          /\ result.url \in prs

\* the operator put milestone 1 back to todo after a run had created its PR,
\* and the next run of the day found that PR
C7_Witness ==
    /\ LookupFound
    /\ resets > 0
    /\ run.cur = 1
    /\ store[2].id = IdC

----------------------------------------------------------------------------
(* Rollback of normalization and structural rejection *)

\* C8: after _parse_file_content_format has returned, with success or
\* with failure at any step, every file of the working copy has the
\* content it had before the call, a file that did not exist does not
\* exist, and no <path>.agent_backup file remains.  (Stated here for the
\* calls in which the file system and git answered every request.)
C8_WorkingCopyRestored ==
    (np.pc = "returned" /\ ~np.fault) => tree = np.pre

\* C9: when normalization has returned, on the failure path as on the
\* success path, the written paths are unstaged: the index is what it was
\* before the call.
C9_IndexRestored ==
    np.pc = "returned" =>
        \A f \in Files :
            index[f] = IF \E j \in DOMAIN np.written : resolve(np.written[j]) = f
                       THEN np.head[f] ELSE np.cached[f]

\* the diff of a patch text: its lines from the first file header on
DiffOf(text) ==
    IF \E j \in DOMAIN text : text[j][1] \in {"--- ", "+++ "}
    THEN SubSeq(text,
                Min({j \in DOMAIN text : text[j][1] \in {"--- ", "+++ "}}),
                Len(text))
    ELSE <<>>

\* the path of the diff's '--- ' header, without git's 'a/' prefix; of
\* several '--- ' headers this is the first
HeaderPathOf(d) ==
    LET h == Min({j \in DOMAIN d : d[j][1] = "--- "})
    IN IF Head(d[h][2]) = "a/" THEN Tail(d[h][2]) ELSE d[h][2]

HasMinusHeader(d) == \E j \in DOMAIN d : d[j][1] = "--- "

\* the malformations that a patch text has, by the name of the rejection
\* that answers each; a hunk header is a line '@@ <ranges> @@'
Malformations(text) ==
    LET d == DiffOf(text)
    IN  {r \in {"PlaceholderHunk", "ZeroLengthHunk", "MissingHunkHeader",
                "PlaceholderPath", "TargetFileMissing"} :
           /\ d # <<>>
           /\ CASE r = "PlaceholderHunk" ->
                      \E j \in DOMAIN d : d[j] = <<"@@", "placeholder">>
                [] r = "ZeroLengthHunk" ->
                      \E j \in DOMAIN d : d[j] = <<"@@", "zero">>
                [] r = "MissingHunkHeader" ->
                      \A j \in DOMAIN d :
                         d[j] \notin {"@@"} \X {"real", "placeholder", "zero"}
                [] r = "PlaceholderPath" ->
                      /\ HasMinusHeader(d)
                      /\ \E j \in DOMAIN HeaderPathOf(d) :
                            HeaderPathOf(d)[j] \in
                                {"placeholder", "Placeholder", "dummy"}
                [] OTHER ->
                      /\ HasMinusHeader(d)
                      /\ HeaderPathOf(d) \in {<<"n">>}}

\* C10: a diff that has a placeholder hunk header, a zero-length hunk,
\* file headers but no '@@' line, a header path containing 'placeholder'
\* or 'dummy', or a header path naming a file that does not exist is
\* rejected by apply_patch with the reason of a malformation that it has;
\* neither 'git apply --check' nor 'git apply' has been invoked and no file
\* of the working copy is modified.  The header path is that of the
\* diff's first '--- ' header.
C10_MalformedDiffRejectedBeforeGit ==
    (ap.pc = "returned" /\ Malformations(ap.input) # {})
        => /\ ap.ret = "fail"
           /\ ap.reason \in Malformations(ap.input)
           /\ ap.invoked = {}
           /\ tree = ap.pre

\* a diff whose only flaw is the missing file of its header has been
\* rejected for that
C10_Witness ==
    /\ ap.pc = "returned"
    /\ Malformations(ap.input) = {"TargetFileMissing"}
    /\ ap.reason = "TargetFileMissing"
    /\ \E j \in DOMAIN ap.input : ap.input[j] = <<"@@", "real">>

----------------------------------------------------------------------------
(* Scope, escape token, formats and modes *)

\* C11: in the milestone flow with target_files, when the paths touched by
\* the patch share no path with the index paths matched by the patterns,
\* whatever that matched set is, the milestone is blocked and apply_patch
\* has not been invoked.
C11_OutOfScopeBlocksBeforeApply ==
    (pc = "ended" /\ run.flow = "milestone" /\ Has(Event("sync", "ok"))
       /\ Has(Event("scope", "disjoint")))
        => /\ store[run.cur].status = "blocked"
           /\ ~Did("apply_patch")

\* C12: when the model has answered NO_PATCH in the milestone flow, the
\* milestone is persisted as blocked with the reason that the model was
\* unable to generate a patch, and the run has made no PR lookup, branch
\* creation, checkout, normalization, patch apply, commit, push or PR
\* creation.
C12_NoPatchBlocksWithoutSideEffects ==
    (pc = "ended" /\ run.flow = "milestone"
       /\ Has(Event("call_openai", "NO_PATCH")))
        => /\ store[run.cur].status = "blocked"
           /\ store[run.cur].reason = "Model unable to safely generate a patch"
           /\ ~Did("get_pr_by_branch")
           /\ \A name \in SideEffects : ~Did(name)

C12_Witness ==
    /\ pc = "ended"
    /\ run.flow = "milestone"
    /\ log[Len(log)] = Event("call_openai", "NO_PATCH")
    /\ store[run.cur].status = "blocked"
    /\ result.kind = "none"

\* C13: in the fix flow, a model response that is a well-formed whole-file
\* block for an existing file with changed content is normalized and
\* applied, and, with a passing re-probe, followed by a commit and the
\* creation of a PR.  (Stated here: when such a response has been handed
\* to apply_patch and no subprocess timed out, the patch was applied.)
C13_FixFlowAppliesWholeFileBlock ==
    (pc = "ended" /\ run.flow = "fix" /\ Has(Event("format", "blocks"))
       /\ result.kind # "raised")
        => Has(Event("apply_patch", "ok"))

\* C14: in the milestone flow, a model output with no whole-file block but
\* with '--- ' / '+++ ' headers and '@@' hunk headers is ingested as a
\* unified diff: unless the scope check or a timeout ends the flow first,
\* it is handed to apply_patch instead of being rejected for its format.
C14_UnifiedDiffFallback ==
    (pc = "ended" /\ run.flow = "milestone" /\ Has(Event("format", "udiff"))
       /\ ~Has(Event("scope", "disjoint")) /\ result.kind # "raised")
        => Did("apply_patch")

MilestonePcs ==
    {"ms_select", "ms_context", "ms_model", "ms_lookup", "ms_parse",
     "ms_apply", "ms_accept", "ms_done"}

\* C15: in auto mode, once the health probe of run() has reported a
\* failing check, no step of the run changes the persisted milestone list
\* or enters the milestone flow, whatever the outcome of the fix flow.
C15_RedRepoLeavesQueueAlone ==
    [][(run.mode = "auto" /\ Has(Event("probe", "failing")))
          => (store' = store /\ pc' \notin MilestonePcs)]_vars

C15_Witness ==
    /\ pc = "ended"
    /\ run.mode = "auto"
    /\ run.flow = "fix"
    /\ Has(Event("probe", "failing"))
    /\ Has(Event("create_pr", "pr"))

\* C16: in the fix flow, when the truth checks run after the patch still
\* report a failing check, the run fails and has made no git commit, no
\* git push and no PR-create call.
C16_StillRedMakesNoPr ==
    (run.flow = "fix" /\ Has(Event("reprobe", "failing")))
        => /\ pc = "ended"
           /\ result.kind \in {"fail_raised", "fail_returned"}
           /\ ~Did("git_add") /\ ~Did("git_commit") /\ ~Did("git_push")
           /\ ~Did("create_pr")

C16_Witness ==
    /\ pc = "ended"
    /\ run.flow = "fix"
    /\ Has(Event("apply_patch", "ok"))
    /\ log[Len(log)] = Event("reprobe", "failing")

\* the terminal failures of the two flows, read from the history
TerminalFailure ==
    \/ \E out \in {"raise", "empty", "NO_PATCH"} : Has(Event("call_openai", out))
    \/ Has(Event("save", "blocked"))
    \/ Has(Event("checkout", "nonzero"))
    \/ run.cur # 0 /\ store[run.cur].reason = "Patch touches files outside target_files"
    \/ Has(Event("apply_patch", "rejected"))
    \/ Has(Event("acceptance", "nonzero"))
    \/ Has(Event("reprobe", "failing"))
    \/ Has(Event("create_pr", "none"))

\* C17: every terminal failure of the fix flow or of the milestone flow
\* ends in _fail, where strict mode is read: with strict mode on the error
\* propagates and the process exits non-zero, with strict mode off run()
\* returns a null result.
C17_StrictDecidesEveryFailure ==
    (pc = "ended" /\ TerminalFailure)
        => result.kind \in {"fail_raised", "fail_returned"}

\* C18: when git checkout of the default branch or git pull has returned
\* non-zero, the run aborts: its history holds nothing but the sync step
\* (no health probe, model call, store write, branch, apply, commit, push
\* or PR creation).
C18_FailedSyncAborts ==
    Has(Event("sync", "nonzero")) => \A k \in DOMAIN log : log[k][1] = "sync"

\* the subprocesses of the two flows that have a timeout
FlowSubprocesses ==
    {"checkout", "apply_patch", "acceptance", "git_add", "git_commit",
     "git_push"}

\* C19: a timeout of a subprocess of the fix flow or of the milestone flow
\* ends the flow as a handled failure (through _fail, with the milestone
\* blocked in the milestone flow) and never leaves run() as an exception.
C19_TimeoutIsHandled ==
    (pc = "ended" /\ \E name \in FlowSubprocesses : Has(Event(name, "raise")))
        => /\ result.kind \in {"fail_raised", "fail_returned"}
           /\ run.flow = "milestone" => store[run.cur].status = "blocked"

----------------------------------------------------------------------------
(* Persistence of the queue *)

\* the reason of the blocked milestone of a list
ReasonOf(ms) == ms[4][6][2].v

\* C20: a milestone list that was saved to reclaim.yaml and loaded back has
\* every field of every milestone (id, title, status, attempts, reason,
\* started_at, completed_at) equal to what was saved, whatever the statuses
\* and whatever newlines and colons the reason holds.
C20_SaveLoadRoundTrip ==
    yaml.pc = "loaded" => yaml.loaded = yaml.ms

C20_Witness ==
    /\ yaml.pc = "loaded"
    /\ yaml.loaded = yaml.ms
    /\ \E k \in DOMAIN ReasonOf(yaml.ms) : ReasonOf(yaml.ms)[k] = "\n"
    /\ \E k \in DOMAIN ReasonOf(yaml.ms) : ReasonOf(yaml.ms)[k] = ":"
    /\ yaml.doc[4][6][2].style # "plain"

----------------------------------------------------------------------------
(* The milestone state machine *)

Transitions ==
    {<<"todo", "in_progress">>, <<"in_progress", "blocked">>,
     <<"in_progress", "done">>, <<"todo", "blocked">>}

\* C21: a step of the agent changes the status of a milestone only from
\* todo to in_progress, from in_progress to blocked or done, or from todo to
\* blocked at the attempt ceiling; it never changes the status of a done or
\* blocked milestone and never sets a status to todo.
C21_OnlyForwardTransitions ==
    [][pc # "idle" =>
          \A i \in DOMAIN store :
              store'[i].status # store[i].status =>
                  /\ <<store[i].status, store'[i].status>> \in Transitions
                  /\ (store[i].status = "todo" /\ store'[i].status = "blocked")
                        => store'[i].attempts > max_attempts]_vars

\* a run has blocked milestone 2 while milestone 1 was done already
C21_Witness ==
    /\ pc = "ended"
    /\ run.cur = 2
    /\ store[1].status = "done"
    /\ store[2].status = "blocked"
    /\ store[2].attempts = 1

Todo(ms) == {i \in DOMAIN ms : ms[i].status = "todo"}

\* C22: the milestone a run processes is the lowest-index milestone that is
\* todo when the flow selects; a milestone of any other status is never
\* selected; with no todo milestone the flow returns and neither the list
\* in memory nor the store changes.
C22_FirstTodoIsSelected ==
    [][(pc = "ms_select" /\ pc' # "idle") =>
          IF Todo(mem) = {}
            THEN /\ pc' = "ended" /\ result'.kind = "none"
                 /\ run'.cur = 0
                 /\ store' = store /\ mem' = mem /\ prs' = prs
            ELSE /\ run'.cur \in Todo(mem)
                 /\ \A j \in Todo(mem) : run'.cur <= j
                 /\ \A j \in DOMAIN store : j # run'.cur => store'[j] = store[j]]_vars

\* milestone 2 was selected behind a milestone that is not todo
C22_Witness ==
    /\ pc = "ms_context"
    /\ run.cur = 2
    /\ store[1].status \in {"done", "blocked", "in_progress"}
    /\ store[2].status = "in_progress"

\* a run found no todo milestone
C22_WitnessNoTodo ==
    /\ pc = "ended"
    /\ run.mode = "milestone" /\ run.cur = 0
    /\ Todo(store) = {}
    /\ result.kind = "none"

\* C23: the step that picks a milestone up writes to the store, together
\* with the resulting status in_progress or blocked, an attempts counter
\* that is one more than the stored one (a missing counter counting as 0),
\* and that step comes before any call of the model.
C23_PickupCountsOnce ==
    [][(pc = "ms_select" /\ pc' # "idle" /\ Todo(mem) # {}) =>
          LET i == run'.cur
              before == IF store[i].attempts = NoAttempts THEN 0 ELSE store[i].attempts
          IN  /\ store'[i].attempts = before + 1
              /\ store'[i].status \in {"in_progress", "blocked"}
              /\ store'[i].status = "in_progress" => pc' = "ms_context"
              /\ store'[i].status = "blocked" => pc' = "ended"]_vars

\* a milestone without a counter was picked up, and one with a counter
\* was picked up a second time
C23_Witness ==
    /\ pc = "ms_context"
    /\ \E i \in DOMAIN store : store[i].attempts = 2
    /\ run.cur = 2
    /\ store[2].attempts = 1

----------------------------------------------------------------------------
(* Persistence before side effects, reasons, order of the steps *)

Irreversible == {"create_branch", "git_push", "create_pr"}

\* C24: in the milestone flow, a step that creates the remote branch,
\* pushes or creates the PR for a milestone starts from a store that holds
\* this milestone as in_progress.
C24_InProgressBeforeSideEffects ==
    [][\A k \in (Len(log) + 1)..Len(log') :
          (run.flow = "milestone" /\ log'[k][1] \in Irreversible)
              => /\ store[run.cur].status = "in_progress"
                 /\ run.branch = milestone_branch_name(today, store[run.cur].id)]_vars

C24_Witness ==
    /\ pc = "ms_done"
    /\ run.flow = "milestone"
    /\ store[run.cur].status = "in_progress"
    /\ Has(Event("create_branch", "ok"))
    /\ Has(Event("git_push", "ok"))
    /\ Has(Event("create_pr", "pr"))

\* C25: a milestone that the agent blocks carries a non-empty reason, and
\* when the milestone flow ends in one of its failure branches, by _fail
\* raising or by a return, the store holds the milestone as blocked with
\* its reason.
C25_FailureIsBlockedWithReason ==
    /\ \A i \in DOMAIN store : store[i].status = "blocked" => store[i].reason # ""
    /\ (pc = "ended" /\ run.flow = "milestone" /\ Has(Event("sync", "ok"))
          /\ result.kind # "raised" /\ TerminalFailure)
           => /\ store[run.cur].status = "blocked"
              /\ store[run.cur].reason # ""

\* C26: in apply_patch 'git apply' is invoked only after 'git apply
\* --check' of the same patch file has returned 0; when the dry run fails,
\* 'git apply' is not invoked and the working copy is as before the call;
\* and when apply_patch is left, by a return or by an exception, the
\* transient patch file is not there any more.
C26_DryRunFirstAndFileRemoved ==
    /\ "git apply" \in ap.invoked => ap.check = "zero"
    /\ ap.check = "nonzero" =>
          /\ "git apply" \notin ap.invoked
          /\ ap.ret = "fail"
          /\ tree = ap.pre
    /\ ap.pc = "returned" => ap.tmp # "present"

\* the '--- ' header paths of a diff that the path validation refuses
RefusedHeaders(text) ==
    {j \in DOMAIN DiffOf(text) :
        /\ DiffOf(text)[j][1] = "--- "
        /\ header_rejection(strip_a(DiffOf(text)[j][2])) # "ok"}

\* C27: the path validation looks at every '--- ' header of the diff: a
\* diff with any header path that holds 'placeholder' or 'dummy', is
\* 'example', or, /dev/null apart, names no regular file of the working
\* copy, is rejected by apply_patch before the patch file is written.
C27_EveryHeaderIsValidated ==
    (ap.pc # "idle" /\ RefusedHeaders(ap.input) # {})
        => /\ ap.pc = "returned"
           /\ ap.ret = "fail"
           /\ ap.tmp = "none"
           /\ ap.invoked = {}

\* the acceptance commands that the run has executed, as places in its history
AcceptanceRuns == {k \in DOMAIN log : log[k][1] = "acceptance"}

\* C28: acceptance commands run after a successful apply only; the first
\* one that exits non-zero is the last step of the run: no acceptance
\* command, commit, push or PR creation follows, and the milestone is
\* blocked with a reason that holds this command and at most 500 characters
\* each of its stdout and stderr.
C28_AcceptanceStopsAtFirstFailure ==
    /\ AcceptanceRuns # {} =>
          \E a \in DOMAIN log :
              /\ log[a] = Event("apply_patch", "ok")
              /\ \A k \in AcceptanceRuns : a < k
    /\ \A k \in AcceptanceRuns :
          log[k][2] = "nonzero" =>
              /\ k = Len(log)
              /\ \A j \in AcceptanceRuns : j # k => log[j][2] = "ok"
              /\ pc = "ended"
              /\ store[run.cur].status = "blocked"
              /\ \E stdout, stderr \in {n \in {0, MaxOutput, OutputLimit} : n <= OutputLimit} :
                    store[run.cur].reason =
                        "Acceptance failed: " \o ToString(Cardinality(AcceptanceRuns))
                            \o " STDOUT: " \o ToString(stdout)
                            \o " STDERR: " \o ToString(stderr)

\* the second command failed after the first passed, with a long stdout
C28_Witness ==
    /\ pc = "ended"
    /\ Cardinality(AcceptanceRuns) = 2
    /\ log[Len(log)] = Event("acceptance", "nonzero")
    /\ store[run.cur].reason = "Acceptance failed: 2 STDOUT: 500 STDERR: 0"

Count(name) == Cardinality({k \in DOMAIN log : log[k][1] = name})

PatchRejections ==
    {"Patch touches files outside target_files",
     "Model output unified diff format", "Patch apply failed"}

\* C29: in one run of either flow the model is called at most once and
\* apply_patch, with its one 'git apply', at most once; a rejected patch
\* is the end of that run's flow: nothing is done after the rejection.
C29_NoBlindResubmission ==
    /\ Count("call_openai") <= 1
    /\ Count("apply_patch") <= 1
    /\ Has(Event("apply_patch", "rejected")) =>
          /\ pc = "ended"
          /\ log[Len(log)] = Event("apply_patch", "rejected")
    /\ (run.flow = "milestone" /\ run.cur # 0
          /\ store[run.cur].reason \in PatchRejections) =>
          /\ pc = "ended"
          /\ store[run.cur].status = "blocked"
          /\ log[Len(log)][1] \in {"format", "normalize", "ls_files", "scope", "apply_patch"}

C29_Witness ==
    /\ pc = "ended"
    /\ run.flow = "fix"
    /\ Count("call_openai") = 1
    /\ Has(Event("format", "udiff"))
    /\ log[Len(log)] = Event("apply_patch", "rejected")

\* C30: when the normalization of whole-file blocks has found the staged
\* diff empty, the blocks naming files within target_files, the milestone
\* flow applies nothing and ends with the milestone blocked for a reason
\* that names the empty diff.
C30_EmptyDiffIsNamed ==
    (pc = "ended" /\ run.flow = "milestone" /\ Has(Event("sync", "ok"))
       /\ Has(Event("normalize", "empty")) /\ ~Has(Event("scope", "disjoint"))
       /\ result.kind # "raised")
        => /\ ~Has(Event("apply_patch", "ok"))
           /\ store[run.cur].status = "blocked"
           /\ store[run.cur].reason = "Generated diff is empty (no changes detected)"

\* the requests of one kind that a call of call_openai has sent so far
RequestsOf(kind) == {i \in DOMAIN oa.io : oa.io[i].kind = kind}

\* C31: one call of call_openai sends at most OPENAI_RETRIES requests of
\* the main loop and at most one continuation request; it sends no request
\* after an insufficient_quota answer; a non-200 status outside
\* 429/500/502/503/504 that rejects no parameter is never retried; and
\* every retry after a transient status is preceded by a sleep, each sleep
\* twice as long as the one before it.
C31_RequestsAreBounded ==
    LET io == oa.io
        sleeps == RequestsOf("sleep")
    IN /\ Cardinality(RequestsOf("main")) <= oa.retries
       /\ Cardinality(RequestsOf("continuation")) <= 1
       /\ \A i \in DOMAIN io :
             io[i].answer \in {"insufficient_quota", "other"} => i = Len(io)
       /\ \A i \in DOMAIN io :
             (io[i].answer = "transient" /\ i < Len(io)) => io[i + 1].kind = "sleep"
       /\ \A i, j \in sleeps :
             (i < j /\ \A k \in sleeps : ~(i < k /\ k < j)) => io[j].n = 2 * io[i].n

\* the requests of the main loop that were sent again because the answer
\* to the one before was incomplete for max_output_tokens and had no text
TruncationRetries ==
    {i \in RequestsOf("main") :
        i > 1 /\ oa.io[i - 1].kind = "main" /\ oa.io[i - 1].answer = "incomplete"}

\* C32: within one call of call_openai a response that is incomplete for
\* max_output_tokens and has no text is retried at most once, and the retry
\* carries a strictly larger max_output_tokens than the truncated request.
C32_TruncationRetriedOnce ==
    /\ Cardinality(TruncationRetries) <= 1
    /\ \A i \in TruncationRetries : oa.io[i].n > oa.io[i - 1].n

\* C39: every request of one call of call_openai carries a
\* max_output_tokens of at least 512 and at most
\* OPENAI_MAX_OUTPUT_TOKENS_CAP, whatever the configured start value and
\* cap, and the value never decreases from one request to the next.
C39_TokensWithinBounds ==
    LET sent == RequestsOf("main") \cup RequestsOf("continuation")
    IN /\ \A i \in sent : 512 <= oa.io[i].n /\ oa.io[i].n <= oa.cap_tokens
       /\ \A i, j \in sent : i < j => oa.io[i].n <= oa.io[j].n

\* C33: the file content gathered for a milestone prompt never exceeds the
\* total character budget (100000 characters with a knowledge base, 200000
\* without) and never holds more files than the limit (5 with a knowledge
\* base, 10 without), for every set of matching files and file sizes.
C33_ContextWithinBudget ==
    /\ cx.total_chars <= (IF cx.skip_redundant_gathering THEN 100000 ELSE 200000)
    /\ cx.matched <= (IF cx.skip_redundant_gathering THEN 5 ELSE 10)

\* C34: a pickup moves the picked milestone out of todo for good, whether
\* the run then succeeds, fails or raises: the pickup takes exactly the
\* picked milestone out of the todo milestones of the store, no step of the
\* agent puts a milestone back to todo, and a counter changes only on the
\* pickup of a todo milestone, by one.  Hence, with no edit of the store
\* from outside, a milestone is picked up at most once, its counter stays
\* within its initial value plus one, and n pickups empty a queue of n.
C34_PickupLeavesTodoForGood ==
    [][/\ Todo(store') \subseteq Todo(store)
       /\ (pc = "ms_select" /\ pc' # "idle" /\ Todo(mem) # {}) =>
             /\ run'.cur \in Todo(store)
             /\ Todo(store') = Todo(store) \ {run'.cur}
       /\ \A i \in DOMAIN store :
             store'[i].attempts # store[i].attempts =>
                 /\ pc = "ms_select" /\ run'.cur = i
                 /\ i \in Todo(store)
                 /\ store'[i].attempts = attempts_of(store[i]) + 1]_vars

\* a second run has picked up milestone 2 and failed, after a first run
\* that picked up milestone 1 and raised: no milestone is todo, and each
\* counter is one pickup above its initial value
C34_Witness ==
    /\ pc = "ended"
    /\ run.cur = 2
    /\ store[1].status = "in_progress"
    /\ store[2].status = "blocked"
    /\ Todo(store) = {}
    /\ store[1].attempts = 1
    /\ store[2].attempts = 1

\* C35: for a fixed date distinct milestone ids give distinct branch names,
\* so a run that ends at the PR lookup with a PR found has found the PR of
\* the milestone it marks done: no other milestone of the queue has the
\* branch name that was looked up.
C35_BranchNameIsInjective ==
    (pc = "ended" /\ run.flow = "milestone"
        /\ Has(Event("get_pr_by_branch", "found")))
    => \A i \in DOMAIN store :
          store[i].id # store[run.cur].id
              => milestone_branch_name(today, store[i].id) # run.branch

\* C36: in the milestone flow, when a PR exists already for the branch of
\* the picked milestone (and of no other milestone), the answer of the
\* model does not block the milestone: whatever call_openai gives, an
\* exception, an empty response or NO_PATCH included, the step that takes
\* the answer does not end the run with the milestone other than done.
C36_ExistingPrWinsOverModel ==
    [][(/\ pc = "ms_model" /\ pc' # "idle"
        /\ milestone_branch_name(today, mem[run.cur].id) \in prs
        /\ \A i \in DOMAIN mem :
              i # run.cur => milestone_branch_name(today, mem[i].id)
                                # milestone_branch_name(today, mem[run.cur].id))
       => /\ store'[run.cur].status # "blocked"
          /\ pc' = "ended" => store'[run.cur].status = "done"]_vars

\* C37: after a milestone-flow run with target_files set in which a patch
\* was applied, every file the patch modifies is among the index paths
\* that the target_files patterns match: a patch that touches an allowed
\* path together with paths outside target_files is not applied.
C37_AppliedPatchIsWithinTargetFiles ==
    (run.flow = "milestone" /\ run.cur # 0 /\ Has(Event("apply_patch", "ok")))
    => (mem[run.cur].target_files
           => ~Has(Event("patch_file_paths", "not all allowed")))

\* C38: the unified diff that whole-file normalization returns touches
\* only paths of the parsed file blocks, whatever the index held before the
\* call: a change that was staged for another path is not in the returned
\* diff, and it is still staged after the call.
C38_DiffHoldsOnlyBlockPaths ==
    (np.pc = "returned" /\ np.ret = "ok") =>
        \A f \in Files :
            (\A j \in DOMAIN np.files : resolve(np.files[j][1]) # f)
                => /\ f \notin np.unified_diff
                   /\ index[f] = np.cached[f]

====
